---------------------------- MODULE Spec2Model ----------------------------
(***************************************************************************)
(* CodeGuardian: the scan orchestration of main.py (start_scan,            *)
(* execute_scan, get_scan_status over the registries active_scans and      *)
(* scan_results), the statistics aggregator (StatsGenerator) and the fix   *)
(* template engine (FixGenerator).                                         *)
(*                                                                         *)
(* Python strings on which the code calls lower(), upper(), `in` or a      *)
(* regular expression are sequences of one-character strings, so that      *)
(* these operations are computed and not assumed.  Dictionaries are        *)
(* functions; d.get(k, default) is Get(d, k, default).                     *)
(***************************************************************************)
EXTENDS Integers, Sequences, FiniteSets, TLC

VARIABLES
    active_scans,      \* main.py: scan_id -> {status, repository_url, requested_by, error}
    scan_results,      \* main.py: scan_id -> report
    temp_dirs,         \* the workspace directories that exist on disk
    task,              \* per scan id, the locals of its execute_scan background task
    response,          \* the last response the service gave
    vulnerabilities,   \* StatsGenerator: the finding collection handed to generate
    stats,             \* StatsGenerator: generate(vulnerabilities)
    risk_score,        \* StatsGenerator: calculate_risk_score(vulnerabilities), in tenths
    scan_ids,          \* StatsGenerator: the id list handed to generate_trend_data
    trend_data,        \* StatsGenerator: generate_trend_data(scan_ids, scan_results)
    vulnerability,     \* FixGenerator: the finding handed to generate_fix
    suggested_fix,     \* FixGenerator: generate_fix(vulnerability), None before the call
    templates,         \* FixGenerator: self.fix_templates of the generator in use
    root_directory,    \* CodeAnalyzer: the directory handed to find_files
    walked,            \* CodeAnalyzer: [file_list |-> find_files(root_directory)], None
                       \* before the call
    asked              \* CodeAnalyzer: the file_path last asked about, with what
                       \* is_supported_file and get_file_language returned for it

ScanVars == <<active_scans, scan_results, temp_dirs, task, response>>

StatsVars == <<vulnerabilities, stats, risk_score>>

TrendVars == <<scan_ids, trend_data>>

FixVars == <<vulnerability, suggested_fix, templates>>

AnalyzerVars == <<root_directory, walked, asked>>

vars == <<ScanVars, StatsVars, TrendVars, FixVars, AnalyzerVars>>

-----------------------------------------------------------------------------
(* Bounds of the model *)

\* at most MaxScans scans are started
MaxScans == 2
\* a finding collection handed to the aggregator holds at most MaxFindings findings ...
MaxFindings == 6
\* ... of at most MaxKinds different kinds
MaxKinds == 2
\* a trend is asked for at most MaxTrendIds scan ids
MaxTrendIds == 3
\* a code snippet is put together from at most MaxPieces pieces
MaxPieces == 3
\* one generator is called for at most MaxCalls findings
MaxCalls == 3

-----------------------------------------------------------------------------
(* Strings *)

UpperLetters ==
    <<"A","B","C","D","E","F","G","H","I","J","K","L","M",
      "N","O","P","Q","R","S","T","U","V","W","X","Y","Z">>

LowerLetters ==
    <<"a","b","c","d","e","f","g","h","i","j","k","l","m",
      "n","o","p","q","r","s","t","u","v","w","x","y","z">>

Digits == {"0","1","2","3","4","5","6","7","8","9"}

Range(f) == {f[i] : i \in DOMAIN f}

\* the lower-case letter of every upper-case letter
LowerMap ==
    [c \in Range(UpperLetters) |->
        LowerLetters[CHOOSE i \in DOMAIN UpperLetters : UpperLetters[i] = c]]

\* the upper-case letter of every lower-case letter
UpperMap ==
    [c \in Range(LowerLetters) |->
        UpperLetters[CHOOSE i \in DOMAIN LowerLetters : LowerLetters[i] = c]]

LowerChar(c) == IF c \in DOMAIN LowerMap THEN LowerMap[c] ELSE c

UpperChar(c) == IF c \in DOMAIN UpperMap THEN UpperMap[c] ELSE c

\* str.lower()
Lower(s) == [i \in 1..Len(s) |-> LowerChar(s[i])]

\* str.upper()
Upper(s) == [i \in 1..Len(s) |-> UpperChar(s[i])]

\* needle in hay (substring test)
Contains(needle, hay) ==
    \E i \in 0..(Len(hay) - Len(needle)) :
        SubSeq(hay, i + 1, i + Len(needle)) = needle

\* dict.get(k, default)
Get(d, k, default) == IF k \in DOMAIN d THEN d[k] ELSE default

-----------------------------------------------------------------------------
(* Risk levels and vulnerability types, as the character strings of the code *)

critical == <<"c","r","i","t","i","c","a","l">>
high     == <<"h","i","g","h">>
medium   == <<"m","e","d","i","u","m">>
low      == <<"l","o","w">>
info     == <<"i","n","f","o">>
unknown  == <<"u","n","k","n","o","w","n">>

sql_injection     == <<"s","q","l","_","i","n","j","e","c","t","i","o","n">>
command_injection == <<"c","o","m","m","a","n","d","_","i","n","j","e","c","t","i","o","n">>
hardcoded_secrets == <<"h","a","r","d","c","o","d","e","d","_","s","e","c","r","e","t","s">>
insecure_deserialization ==
    <<"i","n","s","e","c","u","r","e","_","d","e","s","e","r","i","a","l","i","z","a","t","i","o","n">>
xss               == <<"x","s","s">>

-----------------------------------------------------------------------------
(* StatsGenerator (src/dashboard/stats_generator.py) *)

\* collections.Counter(seq), as a dict
Counter(seq) ==
    [k \in Range(seq) |-> Cardinality({i \in DOMAIN seq : seq[i] = k})]

\* position of the first occurrence of k: the insertion order of a Counter
FirstIndex(seq, k) ==
    CHOOSE i \in DOMAIN seq : seq[i] = k /\ \A j \in DOMAIN seq : seq[j] = k => i <= j

\* dict(sorted(counts.items(), key=lambda x: x[1], reverse=True)[:5]) where
\* counts = Counter(seq): sorted() is stable, so equal counts keep insertion order
Top5(seq) ==
    LET counts == Counter(seq)
        Before(a, b) ==
            \/ counts[a] > counts[b]
            \/ counts[a] = counts[b] /\ FirstIndex(seq, a) < FirstIndex(seq, b)
        Rank(k) == Cardinality({a \in DOMAIN counts : Before(a, k)})
    IN  [k \in {a \in DOMAIN counts : Rank(a) < 5} |-> counts[k]]

RECURSIVE SumSeq(_)
SumSeq(seq) == IF seq = <<>> THEN 0 ELSE Head(seq) + SumSeq(Tail(seq))

RECURSIVE RiskLevelsSkippingMissing(_)
RiskLevelsSkippingMissing(vulns) ==
    IF vulns = <<>> THEN <<>>
    ELSE IF "risk_level" \in DOMAIN Head(vulns)
    THEN <<Lower(Head(vulns).risk_level)>> \o RiskLevelsSkippingMissing(Tail(vulns))
    ELSE RiskLevelsSkippingMissing(Tail(vulns))

\* [v.get('risk_level', 'unknown').lower() for v in vulnerabilities]
RECURSIVE RiskLevels(_)
RiskLevels(vulns) ==
    IF vulns = <<>> THEN <<>>
    ELSE <<Lower(Get(Head(vulns), "risk_level", unknown))>> \o RiskLevels(Tail(vulns))

\* [v.get('type', 'unknown').lower() for v in vulnerabilities]
RECURSIVE VulnTypes(_)
VulnTypes(vulns) ==
    IF vulns = <<>> THEN <<>>
    ELSE <<Lower(Get(Head(vulns), "type", unknown))>> \o VulnTypes(Tail(vulns))

\* [v.get('file_path', 'unknown') for v in vulnerabilities]
RECURSIVE FilePaths(_)
FilePaths(vulns) ==
    IF vulns = <<>> THEN <<>>
    ELSE <<Get(Head(vulns), "file_path", unknown)>> \o FilePaths(Tail(vulns))

\* float(c) if isinstance(c, (int, float)) else 0, in hundredths; a numeric
\* confidence is [num |-> hundredths], a categorical one [cat |-> label]
Confidences(vulns) ==
    [i \in 1..Len(vulns) |->
        LET c == Get(vulns[i], "confidence", [num |-> 0])
        IN  IF "num" \in DOMAIN c THEN c.num ELSE 0]

\* statistics.mean(confidences), kept exact as <<sum, count>>
Mean(seq) == <<SumSeq(seq), Len(seq)>>

empty_stats ==
    [ total_vulnerabilities   |-> 0,
      risk_distribution       |-> <<>>,
      type_distribution       |-> <<>>,
      top_vulnerability_types |-> <<>>,
      average_confidence      |-> <<0, 1>>,
      top_vulnerable_files    |-> <<>> ]

\* StatsGenerator.generate; 'generated_at' is a wall-clock stamp nothing reads
generate(vulns) ==
    IF vulns = <<>> THEN empty_stats
    ELSE
      [ total_vulnerabilities   |-> Len(vulns),
        risk_distribution       |-> Counter(RiskLevels(vulns)),
        type_distribution       |-> Counter(VulnTypes(vulns)),
        top_vulnerability_types |-> Top5(VulnTypes(vulns)),
        average_confidence      |-> Mean(Confidences(vulns)),
        top_vulnerable_files    |-> Top5(FilePaths(vulns)) ]

\* risk_weights, in half points so that info = 0.5 is the integer 1
risk_weights ==
    [k \in {critical, high, medium, low, info, unknown} |->
        CASE k = critical -> 20
          [] k = high     -> 10
          [] k = medium   -> 6
          [] k = low      -> 2
          [] k = info     -> 1
          [] k = unknown  -> 2]

RECURSIVE TotalWeightCaseSensitive(_)
TotalWeightCaseSensitive(vulns) ==
    IF vulns = <<>> THEN 0
    ELSE TotalWeightCaseSensitive(Tail(vulns))
         + Get(risk_weights, Get(Head(vulns), "risk_level", unknown), 2)

\* total_weight after the loop over the findings, in half points
RECURSIVE total_weight(_)
total_weight(vulns) ==
    IF vulns = <<>> THEN 0
    ELSE total_weight(Tail(vulns))
         + Get(risk_weights, Lower(Get(Head(vulns), "risk_level", unknown)), 2)

max_reasonable_weight == 50

\* floor(10^6 * log2(1 + w/50)) for w = 0, 0.5, 1, ... 50 points: the values
\* math.log(1 + w/50) / math.log(2) takes on the weights below saturation
Log2Table ==
    <<0, 14355, 28569, 42644, 56583, 70389, 84064, 97610, 111031, 124328,
      137503, 150559, 163498, 176322, 189033, 201633, 214124, 226508, 238786,
      250961, 263034, 275007, 286881, 298658, 310340, 321928, 333423, 344828,
      356143, 367371, 378511, 389566, 400537, 411426, 422233, 432959, 443606,
      454175, 464668, 475084, 485426, 495695, 505890, 516015, 526068, 536052,
      545968, 555816, 565597, 575312, 584962, 594548, 604071, 613531, 622930,
      632268, 641546, 650764, 659924, 669026, 678071, 687060, 695993, 704871,
      713695, 722466, 731183, 739848, 748461, 757023, 765534, 773996, 782408,
      790772, 799087, 807354, 815575, 823749, 831877, 839959, 847996, 855989,
      863938, 871843, 879705, 887525, 895302, 903038, 910732, 918386, 925999,
      933572, 941106, 948600, 956056, 963474, 970853, 978195, 985500, 992768,
      1000000>>

\* math.log(1 + total_weight / max_reasonable_weight) / math.log(2), in
\* millionths, for a weight w2 in half points.  Above saturation
\* log2(1 + w/50) = 1 + log2(1 + (w - 50)/100), rounded down to the table.
RECURSIVE Log2Micro(_)
Log2Micro(w2) ==
    IF w2 <= 2 * max_reasonable_weight THEN Log2Table[w2 + 1]
    ELSE 1000000 + Log2Micro((w2 - 2 * max_reasonable_weight) \div 2)

Min(a, b) == IF a <= b THEN a ELSE b

NormalizedScoreUnclamped(w2) == 100 * Log2Micro(w2)

\* normalized_score = min(100, 100 * log(...) / log(2)), in millionths
NormalizedScore(w2) == Min(100 * 1000000, 100 * Log2Micro(w2))

\* round(x, 1) of a value in millionths, as a number of tenths
Round1(micro) == (micro + 50000) \div 100000

\* StatsGenerator.calculate_risk_score, in tenths (258 is 25.8)
calculate_risk_score(vulns) ==
    IF vulns = <<>> THEN 0
    ELSE IF total_weight(vulns) = 0 THEN 0
    ELSE Round1(NormalizedScore(total_weight(vulns)))


-----------------------------------------------------------------------------
(* CodeAnalyzer (src/analyzer/code_analyzer.py) *)

\* SUPPORTED_EXTENSIONS, as a sequence of <<extension, language>> pairs
SupportedExtensionItems ==
    << <<<<".","p","y">>, "Python" >>,
      << <<".","j","s">>, "JavaScript" >>,
      << <<".","t","s">>, "TypeScript" >>,
      << <<".","j","a","v","a">>, "Java" >>,
      << <<".","c","p","p">>, "C++" >>,
      << <<".","h">>, "C/C++ Header" >>,
      << <<".","c">>, "C" >>,
      << <<".","g","o">>, "Go" >>,
      << <<".","r","b">>, "Ruby" >>,
      << <<".","p","h","p">>, "PHP" >>,
      << <<".","h","t","m","l">>, "HTML" >>,
      << <<".","c","s","s">>, "CSS" >>,
      << <<".","j","s","x">>, "React JSX" >>,
      << <<".","t","s","x">>, "React TSX" >>,
      << <<".","s","c","a","l","a">>, "Scala" >>,
      << <<".","r","s">>, "Rust" >>,
      << <<".","s","w","i","f","t">>, "Swift" >>,
      << <<".","k","t">>, "Kotlin" >>,
      << <<".","s","h">>, "Shell" >>>>

SUPPORTED_EXTENSIONS ==
    [e \in {SupportedExtensionItems[i][1] : i \in DOMAIN SupportedExtensionItems} |->
        LET i == CHOOSE j \in DOMAIN SupportedExtensionItems :
                    SupportedExtensionItems[j][1] = e
        IN  SupportedExtensionItems[i][2]]

\* the last position of character c in p, 0 if there is none (str.rfind + 1)
RFind(p, c) ==
    IF \E i \in DOMAIN p : p[i] = c
    THEN CHOOSE i \in DOMAIN p : p[i] = c /\ \A j \in DOMAIN p : p[j] = c => j <= i
    ELSE 0

\* os.path.splitext(p)[1]: from the last dot of the last path component on,
\* unless only dots precede it in that component
SplitExt(p) ==
    LET sepIndex == RFind(p, "/")
        dotIndex == RFind(p, ".")
    IN  IF /\ dotIndex > sepIndex
           /\ \E k \in (sepIndex + 1)..(dotIndex - 1) : p[k] # "."
        THEN SubSeq(p, dotIndex, Len(p))
        ELSE <<>>

\* the extension looked up as it is written
IsSupportedFileAsWritten(file_path) ==
    SplitExt(file_path) \in DOMAIN SUPPORTED_EXTENSIONS

\* CodeAnalyzer.is_supported_file
is_supported_file(file_path) ==
    Lower(SplitExt(file_path)) \in DOMAIN SUPPORTED_EXTENSIONS

\* CodeAnalyzer.get_file_language
get_file_language(file_path) ==
    Get(SUPPORTED_EXTENSIONS, Lower(SplitExt(file_path)), "Unknown")

\* exclude_dirs of find_files
DotGit == <<".","g","i","t">>
NodeModules == <<"n","o","d","e","_","m","o","d","u","l","e","s">>

exclude_dirs ==
    { DotGit, <<".","g","i","t","h","u","b">>, NodeModules, <<"v","e","n","v">>,
      <<".","v","e","n","v">>, <<"_","_","p","y","c","a","c","h","e","_","_">>,
      <<".","i","d","e","a">>, <<".","v","s","c","o","d","e">>, <<"b","u","i","l","d">>, <<"d","i","s","t">> }

\* os.path.join of the directory names under the root and the file name
RECURSIVE JoinPath(_, _)
JoinPath(dirs, name) ==
    IF dirs = <<>> THEN name
    ELSE Head(dirs) \o <<"/">> \o JoinPath(Tail(dirs), name)

\* a walk that leaves out the excluded directories of the top directory only
RECURSIVE WalkPruningTopLevelOnly(_, _)
WalkPruningTopLevelOnly(pending, excluded) ==
    IF pending = <<>> THEN <<>>
    ELSE LET root    == Head(pending).root
             content == Head(pending).content
             dirs    == IF root = <<>>
                        THEN SelectSeq(content.dirs, LAMBDA d : d.name \notin excluded)
                        ELSE content.dirs
             files   == [i \in 1..Len(content.files) |->
                            [dirs |-> root] @@ content.files[i]]
             below   == [i \in 1..Len(dirs) |->
                            [root |-> Append(root, dirs[i].name),
                             content |-> dirs[i].content]]
         IN  files \o WalkPruningTopLevelOnly(below \o Tail(pending), excluded)

\* for root, dirs, files in os.walk(directory): dirs[:] = [d for d in dirs if
\* d not in excluded]; for file in files: ...
\* A directory's content is [files, dirs]: its file entries (each with a
\* name) and its directory entries (each a name and a content), as
\* os.listdir orders them.  `pending` holds the directories os.walk has still
\* to list, the next one first, each with the names that lead to it from
\* the top; the directories a step leaves in dirs are listed next, before
\* the ones that were pending.  The result is the files met, in the order
\* met, each with the names that lead to it.
RECURSIVE Walk(_, _)
Walk(pending, excluded) ==
    IF pending = <<>> THEN <<>>
    ELSE LET root    == Head(pending).root
             content == Head(pending).content
             dirs    == SelectSeq(content.dirs, LAMBDA d : d.name \notin excluded)
             files   == [i \in 1..Len(content.files) |->
                            [dirs |-> root] @@ content.files[i]]
             below   == [i \in 1..Len(dirs) |->
                            [root |-> Append(root, dirs[i].name),
                             content |-> dirs[i].content]]
         IN  files \o Walk(below \o Tail(pending), excluded)

\* CodeAnalyzer.find_files: file_list, the paths given from the directory on
find_files(directory) ==
    LET met == Walk(<<[root |-> <<>>, content |-> directory]>>, exclude_dirs)
    IN  [i \in 1..Len(met) |-> JoinPath(met[i].dirs, met[i].name)]


-----------------------------------------------------------------------------
(* Regular expressions (re.search), as far as the fix templates use them *)

WordChars == Range(UpperLetters) \cup Range(LowerLetters) \cup Digits \cup {"_"}

SpaceChars == {" ", "\t", "\n", "\r"}

QuoteChars == {"'", "\""}

\* pattern nodes: one literal character, a character class, the dot, a
\* repetition of a one-character node (min 0 or 1, greedy or lazy), a
\* capturing group, an alternation and a negative lookahead
Chr(c) == [t |-> "chr", c |-> c]
Cls(S) == [t |-> "cls", s |-> S]
Dot == [t |-> "any"]
Rep(node, min, greedy) == [t |-> "rep", r |-> node, min |-> min, greedy |-> greedy]
Grp(n, nodes) == [t |-> "grp", n |-> n, r |-> nodes]
Alt(branches) == [t |-> "alt", rs |-> branches]
Nla(nodes) == [t |-> "nla", r |-> nodes]
GrpOpen(n) == [t |-> "open", n |-> n]
GrpClose(n) == [t |-> "close", n |-> n]

\* a literal string
Lit(chars) == [i \in 1..Len(chars) |-> Chr(chars[i])]

\* \s*
Spaces == Rep(Cls(SpaceChars), 0, TRUE)

NoMatch == [ok |-> FALSE]

NoGroups == [n \in 1..2 |-> <<-1, -1>>]

CharMatches(node, c) ==
    CASE node.t = "chr" -> c = node.c
      [] node.t = "cls" -> c \in node.s
      [] node.t = "any" -> c # "\n"

\* how many characters from position i on (0-based) match the node
RECURSIVE RunLength(_, _, _)
RunLength(node, s, i) ==
    IF i < Len(s) /\ CharMatches(node, s[i + 1])
    THEN 1 + RunLength(node, s, i + 1)
    ELSE 0

\* the backtracking match of a node sequence at position i, in the order
\* Python's engine tries the alternatives; the first success is the match
RECURSIVE Match(_, _, _, _), TryRep(_, _, _, _, _, _, _), TryAlt(_, _, _, _, _)
Match(nodes, s, i, g) ==
    IF nodes = <<>> THEN [ok |-> TRUE, end |-> i, g |-> g]
    ELSE
      LET n    == Head(nodes)
          rest == Tail(nodes)
      IN  CASE n.t \in {"chr", "cls", "any"} ->
                 IF i < Len(s) /\ CharMatches(n, s[i + 1])
                 THEN Match(rest, s, i + 1, g)
                 ELSE NoMatch
            [] n.t = "rep" ->
                 LET m == RunLength(n.r, s, i)
                 IN  IF m < n.min THEN NoMatch
                     ELSE IF n.greedy THEN TryRep(rest, s, i, g, m, n.min, -1)
                     ELSE TryRep(rest, s, i, g, n.min, m, 1)
            [] n.t = "grp" ->
                 Match(<<GrpOpen(n.n)>> \o n.r \o <<GrpClose(n.n)>> \o rest, s, i, g)
            [] n.t = "open" ->
                 Match(rest, s, i, [g EXCEPT ![n.n] = <<i, -1>>])
            [] n.t = "close" ->
                 Match(rest, s, i, [g EXCEPT ![n.n] = <<g[n.n][1], i>>])
            [] n.t = "alt" -> TryAlt(n.rs, rest, s, i, g)
            [] n.t = "nla" ->
                 IF Match(n.r, s, i, g).ok THEN NoMatch ELSE Match(rest, s, i, g)

\* a repetition taking j characters, then j + step, ... up to last
TryRep(rest, s, i, g, j, last, step) ==
    LET r == Match(rest, s, i + j, g)
    IN  IF r.ok THEN r
        ELSE IF j = last THEN NoMatch
        ELSE TryRep(rest, s, i, g, j + step, last, step)

TryAlt(branches, rest, s, i, g) ==
    IF branches = <<>> THEN NoMatch
    ELSE LET r == Match(Head(branches) \o rest, s, i, g)
         IN  IF r.ok THEN r ELSE TryAlt(Tail(branches), rest, s, i, g)

\* re.search(pattern, s): the match at the leftmost position that has one
RECURSIVE SearchFrom(_, _, _)
SearchFrom(pattern, s, i) ==
    IF i > Len(s) THEN NoMatch
    ELSE LET r == Match(pattern, s, i, NoGroups)
         IN  IF r.ok THEN [ok |-> TRUE, start |-> i, end |-> r.end, g |-> r.g]
             ELSE SearchFrom(pattern, s, i + 1)

Search(pattern, s) == SearchFrom(pattern, s, 0)

\* match.group(n)
Group(s, m, n) == SubSeq(s, m.g[n][1] + 1, m.g[n][2])

-----------------------------------------------------------------------------
(* More string operations *)

\* str.strip(chars)
RECURSIVE LStrip(_, _)
LStrip(s, chars) ==
    IF s # <<>> /\ Head(s) \in chars THEN LStrip(Tail(s), chars) ELSE s

RECURSIVE RStrip(_, _)
RStrip(s, chars) ==
    IF s # <<>> /\ s[Len(s)] \in chars
    THEN RStrip(SubSeq(s, 1, Len(s) - 1), chars)
    ELSE s

Strip(s, chars) == RStrip(LStrip(s, chars), chars)

\* s.split(c)[0]
RECURSIVE SplitHead(_, _)
SplitHead(s, c) ==
    IF s = <<>> \/ Head(s) = c THEN <<>>
    ELSE <<Head(s)>> \o SplitHead(Tail(s), c)

\* template.format(*args) for a template whose only fields are "{}"
RECURSIVE Format(_, _)
Format(template, args) ==
    IF template = <<>> THEN <<>>
    ELSE IF Len(template) >= 2 /\ template[1] = "{" /\ template[2] = "}"
    THEN Head(args) \o Format(Tail(Tail(template)), Tail(args))
    ELSE <<Head(template)>> \o Format(Tail(template), args)

-----------------------------------------------------------------------------
(* FixGenerator (src/ml/fix_generator.py) *)

OsSystem ==
    <<"o","s",".","s","y","s","t","e","m">>

\* \s*\(\s*['"].*?\s*\+\s*(.+?)\s*['"]\s*\) with the group numbered n
ConcatCallTail(n) ==
    <<Spaces, Chr("("), Spaces, Cls(QuoteChars), Rep(Dot, 0, FALSE), Spaces,
      Chr("+"), Spaces, Grp(n, <<Rep(Dot, 1, FALSE)>>), Spaces, Cls(QuoteChars),
      Spaces, Chr(")")>>

\* cursor\.execute\s*\(\s*['"].*?\s*\+\s*(.+?)\s*['"]\s*\)
SqlPattern ==
    Lit(<<"c","u","r","s","o","r",".","e","x","e","c","u","t","e">>)
    \o ConcatCallTail(1)

\* (os\.system|subprocess\.call|subprocess\.Popen)\s*\(\s*['"].*?\s*\+\s*(.+?)\s*['"]\s*\)
CommandPattern ==
    <<Grp(1, <<Alt(<<
        Lit(OsSystem),
        Lit(<<"s","u","b","p","r","o","c","e","s","s",".","c","a","l","l">>),
        Lit(<<"s","u","b","p","r","o","c","e","s","s",".","P","o","p","e","n">>)>>)>>)>>
    \o ConcatCallTail(2)

\* (\w+)\s*=\s*['"]((?!.*\$\{)(?!.*\{\{).+?)['"]\s*
SecretsPattern ==
    <<Grp(1, <<Rep(Cls(WordChars), 1, TRUE)>>), Spaces, Chr("="), Spaces,
      Cls(QuoteChars),
      Grp(2, <<Nla(<<Rep(Dot, 0, TRUE), Chr("$"), Chr("{")>>),
               Nla(<<Rep(Dot, 0, TRUE), Chr("{"), Chr("{")>>),
               Rep(Dot, 1, FALSE)>>),
      Cls(QuoteChars), Spaces>>

\* pickle\.loads\s*\(\s*(.+?)\s*\)
PicklePattern ==
    Lit(<<"p","i","c","k","l","e",".","l","o","a","d","s">>)
    \o <<Spaces, Chr("("), Spaces, Grp(1, <<Rep(Dot, 1, FALSE)>>), Spaces, Chr(")")>>

SqlReplacement ==
    <<"c","u","r","s","o","r",".","e","x","e","c","u","t","e","(","'","{","}","'",",",
      " ","[","{","}","]",")">>

CommandReplacement ==
    <<"#"," ","S","E","C","U","R","I","T","Y",":"," ","A","v","o","i","d"," ","s","h",
      "e","l","l"," ","c","o","m","m","a","n","d","s"," ","w","i","t","h"," ","u","s",
      "e","r"," ","i","n","p","u","t","\n","#"," ","C","o","n","s","i","d","e","r"," ",
      "u","s","i","n","g"," ","s","e","c","u","r","e"," ","a","l","t","e","r","n","a",
      "t","i","v","e","s"," ","l","i","k","e",":","\n","#"," ","s","h","l","e","x",".",
      "q","u","o","t","e","(",")"," ","o","r"," ","d","e","d","i","c","a","t","e","d",
      " ","A","P","I","s">>

SecretsReplacement ==
    <<"{","}"," ","="," ","o","s",".","e","n","v","i","r","o","n",".","g","e","t","(",
      "'","{","}","'",","," ","'","'",")">>

PickleReplacement ==
    <<"#"," ","S","E","C","U","R","I","T","Y",":"," ","A","v","o","i","d"," ","p","i",
      "c","k","l","e"," ","w","i","t","h"," ","u","n","t","r","u","s","t","e","d"," ",
      "d","a","t","a","\n","#"," ","C","o","n","s","i","d","e","r"," ","J","S","O","N",
      " ","o","r"," ","o","t","h","e","r"," ","s","a","f","e","r"," ","s","e","r","i",
      "a","l","i","z","a","t","i","o","n"," ","f","o","r","m","a","t","s">>

\* self.fix_templates, and the order in which the dict yields its keys
fix_templates ==
    [k \in {sql_injection, command_injection, hardcoded_secrets,
            insecure_deserialization} |->
        CASE k = sql_injection ->
               [pattern |-> SqlPattern, replacement |-> SqlReplacement,
                explanation |-> "Use parameterized queries to prevent SQL injection."]
          [] k = command_injection ->
               [pattern |-> CommandPattern, replacement |-> CommandReplacement,
                explanation |-> "Avoid shell commands with concatenated user input."]
          [] k = hardcoded_secrets ->
               [pattern |-> SecretsPattern, replacement |-> SecretsReplacement,
                explanation |->
                  "Store secrets in environment variables or a secure vault service."]
          [] k = insecure_deserialization ->
               [pattern |-> PicklePattern, replacement |-> PickleReplacement,
                explanation |->
                  "Pickle is vulnerable to code execution attacks with untrusted data."]]

TemplateOrder ==
    <<sql_injection, command_injection, hardcoded_secrets, insecure_deserialization>>

\* Python's None
None == [none |-> TRUE]

ApplyTemplateWithoutMatchTest(template, code_snippet) ==
    [fixed_code |-> template.replacement, explanation |-> template.explanation,
     confidence |-> "medium"]

\* FixGenerator._apply_template.  `'sql_injection' in template` asks whether
\* the template dict has that key; its keys are the field names of the record.
apply_template(template, code_snippet) ==
    LET match == Search(template.pattern, code_snippet)
        fixed_code ==
            IF "sql_injection" \in DOMAIN template
            THEN Format(template.replacement,
                        <<Strip(Strip(Strip(SplitHead(code_snippet, "+"), SpaceChars),
                                      {"'"}), {"\""}),
                          Strip(Group(code_snippet, match, 1), SpaceChars)>>)
            ELSE IF "command_injection" \in DOMAIN template
            THEN template.replacement
            ELSE IF "hardcoded_secrets" \in DOMAIN template
            THEN Format(template.replacement,
                        <<Group(code_snippet, match, 1),
                          Upper(Group(code_snippet, match, 1))>>)
            ELSE template.replacement
    IN  IF ~match.ok THEN None
        ELSE [fixed_code |-> fixed_code, explanation |-> template.explanation,
              confidence |-> "medium"]

SqlGenericFix ==
    <<"#"," ","U","s","e"," ","p","a","r","a","m","e","t","e","r","i","z","e","d"," ",
      "q","u","e","r","i","e","s","\n","c","u","r","s","o","r",".","e","x","e","c","u",
      "t","e","(","'","S","E","L","E","C","T"," ","*"," ","F","R","O","M"," ","t","a",
      "b","l","e"," ","W","H","E","R","E"," ","f","i","e","l","d"," ","="," ","%","s",
      "'",","," ","[","u","s","e","r","_","i","n","p","u","t","]",")">>

CommandGenericFix ==
    <<"#"," ","A","v","o","i","d"," ","s","h","e","l","l","=","T","r","u","e"," ","a",
      "n","d"," ","c","o","m","m","a","n","d"," ","c","o","n","c","a","t","e","n","a",
      "t","i","o","n","\n","i","m","p","o","r","t"," ","s","h","l","e","x","\n","s","a",
      "f","e","_","a","r","g","s"," ","="," ","[","s","a","f","e","_","c","o","m","m",
      "a","n","d",","," ","s","h","l","e","x",".","q","u","o","t","e","(","u","s","e",
      "r","_","i","n","p","u","t",")","]","\n","s","u","b","p","r","o","c","e","s","s",
      ".","r","u","n","(","s","a","f","e","_","a","r","g","s",","," ","s","h","e","l",
      "l","=","F","a","l","s","e",","," ","c","h","e","c","k","=","T","r","u","e",")">>

XssGenericFix ==
    <<"#"," ","U","s","e"," ","p","r","o","p","e","r"," ","e","s","c","a","p","i","n",
      "g","/","e","n","c","o","d","i","n","g","\n","f","r","o","m"," ","h","t","m","l",
      " ","i","m","p","o","r","t"," ","e","s","c","a","p","e","\n","s","a","f","e","_",
      "o","u","t","p","u","t"," ","="," ","e","s","c","a","p","e","(","u","s","e","r",
      "_","i","n","p","u","t",")","\n","r","e","s","p","o","n","s","e",".","w","r","i",
      "t","e","(","f","'","<","d","i","v",">","{","s","a","f","e","_","o","u","t","p",
      "u","t","}","<","/","d","i","v",">","'",")">>

PathGenericFix ==
    <<"#"," ","V","a","l","i","d","a","t","e"," ","f","i","l","e"," ","p","a","t","h",
      "s","\n","i","m","p","o","r","t"," ","o","s",".","p","a","t","h","\n","s","a","f",
      "e","_","p","a","t","h"," ","="," ","o","s",".","p","a","t","h",".","n","o","r",
      "m","p","a","t","h","(","o","s",".","p","a","t","h",".","j","o","i","n","(","s",
      "a","f","e","_","b","a","s","e","_","d","i","r",","," ","u","s","e","r","_","f",
      "i","l","e","n","a","m","e",")",")","\n","i","f"," ","n","o","t"," ","s","a","f",
      "e","_","p","a","t","h",".","s","t","a","r","t","s","w","i","t","h","(","s","a",
      "f","e","_","b","a","s","e","_","d","i","r",")",":","\n"," "," "," "," ","r","a",
      "i","s","e"," ","V","a","l","u","e","E","r","r","o","r","(","'","I","n","v","a",
      "l","i","d"," ","p","a","t","h","'",")">>

ManualReviewPrefix ==
    <<"#"," ","R","e","v","i","e","w"," ","a","n","d"," ","f","i","x"," ","t","h","i",
      "s"," ","v","u","l","n","e","r","a","b","i","l","i","t","y","\n","#"," ">>

\* FixGenerator._generate_type_based_fix
generate_type_based_fix(vuln) ==
    LET vuln_type    == Lower(Get(vuln, "type", <<>>))
        code_snippet == Get(vuln, "code_snippet", <<>>)
    IN  IF Contains(<<"s","q","l">>, vuln_type)
        THEN [fixed_code |-> SqlGenericFix,
              explanation |-> "Use parameterized queries to prevent SQL injection.",
              confidence |-> "low"]
        ELSE IF \/ Contains(<<"c","o","m","m","a","n","d">>, vuln_type)
                \/ Contains(OsSystem, vuln_type)
                \/ Contains(<<"s","u","b","p","r","o","c","e","s","s">>, vuln_type)
        THEN [fixed_code |-> CommandGenericFix,
              explanation |->
                "Use subprocess with properly quoted arguments and avoid shell=True.",
              confidence |-> "low"]
        ELSE IF Contains(xss, vuln_type)
        THEN [fixed_code |-> XssGenericFix,
              explanation |->
                "Always encode/escape user input before rendering in HTML context.",
              confidence |-> "low"]
        ELSE IF \/ Contains(<<"p","a","t","h">>, vuln_type)
                \/ Contains(<<"f","i","l","e">>, vuln_type)
        THEN [fixed_code |-> PathGenericFix,
              explanation |->
                "Validate and sanitize file paths to prevent directory traversal.",
              confidence |-> "low"]
        ELSE [fixed_code |-> ManualReviewPrefix \o code_snippet,
              explanation |-> "This requires manual review.",
              confidence |-> "low"]

\* the loop of generate_fix from the k-th template on: the first template
\* whose key occurs in the type and which yields a fix decides
RECURSIVE FirstTemplateFix(_, _, _)
FirstTemplateFix(k, vuln_type, code_snippet) ==
    IF k > Len(TemplateOrder) THEN None
    ELSE LET fix == IF Contains(TemplateOrder[k], vuln_type)
                    THEN apply_template(fix_templates[TemplateOrder[k]], code_snippet)
                    ELSE None
         IN  IF fix # None THEN fix
             ELSE FirstTemplateFix(k + 1, vuln_type, code_snippet)

GenerateFixCountingCalls(vuln) ==
    [fixed_code  |-> ManualReviewPrefix \o Get(vuln, "code_snippet", <<>>),
     explanation |-> "This requires manual review.",
     confidence  |-> IF Len(vulnerabilities) < 2 THEN "low" ELSE "medium"]

\* FixGenerator.generate_fix
generate_fix(vuln) ==
    LET vuln_type    == Lower(Get(vuln, "type", <<>>))
        code_snippet == Get(vuln, "code_snippet", <<>>)
        fix          == FirstTemplateFix(1, vuln_type, code_snippet)
    IN  IF fix # None THEN fix ELSE generate_type_based_fix(vuln)


-----------------------------------------------------------------------------
(* The repositories a scan may be asked to fetch *)

AppPy == <<"a","p","p",".","p","y">>
ViewJs == <<"v","i","e","w",".","J","S">>
GitConfig == <<"c","o","n","f","i","g">>
LibPy == <<"l","i","b",".","p","y">>
SecretSnippet ==
    <<"a","p","i","_","k","e","y"," ","="," ","\"","s","3","c","r","e","t","\"">>
QuerySnippet ==
    <<"c","u","r","s","o","r",".","e","x","e","c","u","t","e","(","\"","S","E","L","E",
      "C","T"," ","\""," ","+"," ","u","i","d",")">>
EchoSnippet ==
    <<"o","s",".","s","y","s","t","e","m","(","\"","e","c","h","o"," ","\""," ","+"," ",
      "a","r","g",")">>

\* what the pattern detector finds in the files of the repositories
SecretMatch ==
    [type |-> hardcoded_secrets, line |-> 3, code_snippet |-> SecretSnippet,
     risk_level |-> medium, confidence |-> [cat |-> "low"]]

QueryMatch ==
    [type |-> sql_injection, line |-> 7, code_snippet |-> QuerySnippet,
     risk_level |-> high, confidence |-> [cat |-> "medium"]]

EchoMatch ==
    [type |-> command_injection, code_snippet |-> EchoSnippet,
     risk_level |-> <<"H","i","g","h">>, confidence |-> [num |-> 70]]

\* a repository: whether git can clone it, and the tree the clone leaves in
\* the workspace: the files and directories of its top directory, each file
\* with whether it can be read and what the detector's rules match
Repositories ==
    [url \in {"missing", "docs", "webapp", "broken"} |->
        CASE url = "missing" ->
               [clone_ok |-> FALSE, tree |-> [files |-> <<>>, dirs |-> <<>>]]
          [] url = "docs" ->
               [clone_ok |-> TRUE,
                tree |->
                  [files |-> << [name |-> <<"R","E","A","D","M","E",".","m","d">>, readable |-> TRUE,
                                 matches |-> <<SecretMatch>>] >>,
                   dirs |-> << [name |-> DotGit,
                                content |->
                                  [files |-> << [name |-> GitConfig, readable |-> TRUE,
                                                 matches |-> <<>>] >>,
                                   dirs |-> <<>>]] >>]]
          [] url = "webapp" ->
               [clone_ok |-> TRUE,
                tree |->
                  [files |-> << [name |-> AppPy, readable |-> TRUE,
                                 matches |-> <<QueryMatch, SecretMatch>>] >>,
                   dirs |-> << [name |-> DotGit,
                                content |->
                                  [files |-> << [name |-> GitConfig, readable |-> TRUE,
                                                 matches |-> <<>>] >>,
                                   dirs |-> <<>>]],
                               [name |-> NodeModules,
                                content |->
                                  [files |-> << [name |-> <<"i","n","d","e","x",".","j","s">>, readable |-> FALSE,
                                                 matches |-> <<>>] >>,
                                   dirs |-> <<>>]],
                               [name |-> <<"s","r","c">>,
                                content |->
                                  [files |-> << [name |-> ViewJs, readable |-> TRUE,
                                                 matches |-> <<EchoMatch>>] >>,
                                   dirs |-> <<>>]] >>]]
          [] url = "broken" ->
               [clone_ok |-> TRUE,
                tree |->
                  [files |-> << [name |-> LibPy, readable |-> FALSE, matches |-> <<>>],
                                [name |-> AppPy, readable |-> TRUE,
                                 matches |-> <<SecretMatch>>] >>,
                   dirs |-> <<>>]]]

\* the file of a tree that a path names
FileAt(tree, path) ==
    CHOOSE f \in Range(Walk(<<[root |-> <<>>, content |-> tree]>>, {})) :
        JoinPath(f.dirs, f.name) = path

-----------------------------------------------------------------------------
(* VulnerabilityDetector and VulnerabilityClassifier *)

\* VulnerabilityDetector.scan_file raises when the file cannot be read ...
ScanFileRaises(tree, path) == ~FileAt(tree, path).readable

\* ... and otherwise yields one finding per rule match, with the file's path
scan_file(tree, path) ==
    LET matches == FileAt(tree, path).matches
    IN  [i \in 1..Len(matches) |-> [file_path |-> path] @@ matches[i]]

\* VulnerabilityClassifier.classify: a function of the finding's type and
\* its detection confidence, which never raises
classify(vuln) ==
    [category   |-> Lower(Get(vuln, "type", unknown)),
     confidence |-> Get(vuln, "confidence", [cat |-> "low"])]

-----------------------------------------------------------------------------
(* Orchestration (main.py): start_scan, execute_scan, get_scan_status *)

\* the scan ids uuid4 hands out
ScanIds == 1..MaxScans

\* temp_dir before tempfile.mkdtemp() has bound it
Unbound == 0

\* datetime.now().isoformat() readings
Timestamps == {"2026-01-01T10:00:00", "2026-01-02T10:00:00"}

\* get_current_user
current_user == [username |-> "demo_user"]

\* the locals of execute_scan before it is called
NoTask ==
    [pc |-> "none", repo_url |-> "", temp_dir |-> Unbound, file_list |-> <<>>,
     idx |-> 1, vulnerabilities |-> <<>>, error |-> ""]

\* active_scans[scan_id] = {"status": "in_progress", ...}
Register(scans, scan_id, url) ==
    [k \in DOMAIN scans \cup {scan_id} |->
        IF k = scan_id
        THEN [status |-> "in_progress", repository_url |-> url,
              requested_by |-> current_user.username]
        ELSE scans[k]]

\* start_scan: registers the scan, queues execute_scan as a background task
\* and acknowledges with the scan id
StartScan(url) ==
    LET scan_id == Cardinality(DOMAIN active_scans) + 1
    IN  /\ scan_id \in ScanIds
        /\ active_scans' = Register(active_scans, scan_id, url)
        /\ task' = [task EXCEPT ![scan_id] =
                        [NoTask EXCEPT !.pc = "queued", !.repo_url = url]]
        /\ response' = [code |-> 200, scan_id |-> scan_id,
                        body |-> [status |-> "scan_started"]]
        /\ UNCHANGED <<scan_results, temp_dirs, StatsVars, TrendVars, FixVars, AnalyzerVars>>

\* temp_dir = tempfile.mkdtemp(): a fresh directory of the scan's own, or
\* OSError when the directory cannot be made
Mkdtemp(s) ==
    /\ task[s].pc = "queued"
    /\ \/ /\ temp_dirs' = temp_dirs \cup {s}
          /\ task' = [task EXCEPT ![s].pc = "clone", ![s].temp_dir = s]
       \/ /\ task' = [task EXCEPT ![s].pc = "except",
                                  ![s].error = "mkdtemp: no usable temporary directory"]
          /\ UNCHANGED temp_dirs
    /\ UNCHANGED <<active_scans, scan_results, response, StatsVars, TrendVars, FixVars, AnalyzerVars>>

\* git.Repo.clone_from(repo_url, temp_dir, ...)
Clone(s) ==
    /\ task[s].pc = "clone"
    /\ IF Repositories[task[s].repo_url].clone_ok
       THEN task' = [task EXCEPT ![s].pc = "find"]
       ELSE task' = [task EXCEPT ![s].pc = "except",
                                 ![s].error = "git: repository not found"]
    /\ UNCHANGED <<active_scans, scan_results, temp_dirs, response, StatsVars, TrendVars, FixVars, AnalyzerVars>>

\* file_list = code_analyzer.find_files(temp_dir); vulnerabilities = []
FindFiles(s) ==
    /\ task[s].pc = "find"
    /\ task' = [task EXCEPT ![s].pc = "files",
                            ![s].file_list = find_files(Repositories[task[s].repo_url].tree),
                            ![s].idx = 1,
                            ![s].vulnerabilities = <<>>]
    /\ UNCHANGED <<active_scans, scan_results, temp_dirs, response, StatsVars, TrendVars, FixVars, AnalyzerVars>>

\* {**vuln, "classification": ..., "suggested_fix": ...} for every finding
Enhance(file_vulns) ==
    [i \in 1..Len(file_vulns) |->
        [classification |-> classify(file_vulns[i]),
         suggested_fix  |-> generate_fix(file_vulns[i])] @@ file_vulns[i]]

\* what one iteration of the loop appends for each file of a file list:
\* nothing for a file that is skipped, else the enhanced findings of the file
RECURSIVE FindingsPerFile(_, _)
FindingsPerFile(tree, files) ==
    IF files = <<>> THEN <<>>
    ELSE LET file_path == Head(files)
             found == IF is_supported_file(file_path) /\ ~ScanFileRaises(tree, file_path)
                      THEN Enhance(scan_file(tree, file_path)) \o <<>>
                      ELSE <<>>
         IN  <<found>> \o FindingsPerFile(tree, Tail(files))

\* scan_file, classify and generate_fix depend on the file alone, so the
\* findings of each file of each repository are computed once
FileFindings ==
    LET OfTree(tree) == FindingsPerFile(tree, find_files(tree))
    IN  [missing |-> OfTree(Repositories["missing"].tree),
         docs    |-> OfTree(Repositories["docs"].tree),
         webapp  |-> OfTree(Repositories["webapp"].tree),
         broken  |-> OfTree(Repositories["broken"].tree)]

\* one iteration of `for file_path in file_list`
ProcessFile(s) ==
    LET t         == task[s]
        tree      == Repositories[t.repo_url].tree
        file_path == t.file_list[t.idx]
    IN  /\ t.pc = "files"
        /\ t.idx <= Len(t.file_list)
        /\ IF ~is_supported_file(file_path)
           THEN task' = [task EXCEPT ![s].idx = t.idx + 1]
           ELSE IF ScanFileRaises(tree, file_path)
           THEN task' = [task EXCEPT ![s].pc = "except",
                                     ![s].error = "scan_file: cannot read file"]
           ELSE task' = [task EXCEPT
                            ![s].idx = t.idx + 1,
                            ![s].vulnerabilities =
                                t.vulnerabilities \o FileFindings[t.repo_url][t.idx]]
        /\ UNCHANGED <<active_scans, scan_results, temp_dirs, response, StatsVars, TrendVars, FixVars, AnalyzerVars>>

\* the report execute_scan builds after the loop
Report(scan_id, timestamp, vulns) ==
    [scan_id         |-> scan_id,
     timestamp       |-> timestamp,
     vulnerabilities |-> vulns,
     stats           |-> generate(vulns),
     risk_score      |-> calculate_risk_score(vulns)]

StoreReportInSharedSlot(results, scan_id, report) ==
    [k \in DOMAIN results \cup {1} |-> IF k = 1 THEN report ELSE results[k]]

\* scan_results[scan_id] = report
StoreReport(results, scan_id, report) ==
    [k \in DOMAIN results \cup {scan_id} |->
        IF k = scan_id THEN report ELSE results[k]]

\* stats, risk_score and scan_results[scan_id] = {...}
StoreResults(s) ==
    /\ task[s].pc = "files"
    /\ task[s].idx > Len(task[s].file_list)
    /\ \E now \in Timestamps :
          scan_results' =
              StoreReport(scan_results, s, Report(s, now, task[s].vulnerabilities))
    /\ task' = [task EXCEPT ![s].pc = "mark"]
    /\ UNCHANGED <<active_scans, temp_dirs, response, StatsVars, TrendVars, FixVars, AnalyzerVars>>

\* active_scans[scan_id]["status"] = "completed"
MarkCompleted(s) ==
    /\ task[s].pc = "mark"
    /\ active_scans' = [active_scans EXCEPT ![s].status = "completed"]
    /\ task' = [task EXCEPT ![s].pc = "finally"]
    /\ UNCHANGED <<scan_results, temp_dirs, response, StatsVars, TrendVars, FixVars, AnalyzerVars>>

FailedEntryWithoutStatus(entry, message) == [error |-> message] @@ entry

\* the entry after the except clause: status "failed" and error str(e)
FailedEntry(entry, message) ==
    [status |-> "failed", error |-> message] @@ entry

\* except Exception as e
HandleException(s) ==
    /\ task[s].pc = "except"
    /\ active_scans' = [active_scans EXCEPT ![s] = FailedEntry(@, task[s].error)]
    /\ task' = [task EXCEPT ![s].pc = "finally"]
    /\ UNCHANGED <<scan_results, temp_dirs, response, StatsVars, TrendVars, FixVars, AnalyzerVars>>

\* finally: if os.path.exists(temp_dir): shutil.rmtree(temp_dir).  Reading
\* temp_dir when mkdtemp raised before binding it is an UnboundLocalError,
\* which leaves execute_scan as an exception.
Cleanup(s) ==
    /\ task[s].pc = "finally"
    /\ IF task[s].temp_dir = Unbound
       THEN /\ task' = [task EXCEPT ![s].pc = "raised"]
            /\ UNCHANGED temp_dirs
       ELSE /\ temp_dirs' = temp_dirs \ {task[s].temp_dir}
            /\ task' = [task EXCEPT ![s].pc = "done"]
    /\ UNCHANGED <<active_scans, scan_results, response, StatsVars, TrendVars, FixVars, AnalyzerVars>>

\* the steps of the background task execute_scan(scan_id, ...)
ExecuteScan(s) ==
    \/ Mkdtemp(s)
    \/ Clone(s)
    \/ FindFiles(s)
    \/ ProcessFile(s)
    \/ StoreResults(s)
    \/ MarkCompleted(s)
    \/ HandleException(s)
    \/ Cleanup(s)

ScanStatusServingAnyStoredReport(scan_id) ==
    IF scan_id \notin DOMAIN active_scans
    THEN [code |-> 404, scan_id |-> scan_id, body |-> [detail |-> "Scan not found"]]
    ELSE IF scan_id \in DOMAIN scan_results
    THEN [code |-> 200, scan_id |-> scan_id,
          body |-> [status |-> active_scans[scan_id].status,
                    results |-> scan_results[scan_id]]]
    ELSE [code |-> 200, scan_id |-> scan_id,
          body |-> [status |-> active_scans[scan_id].status,
                    message |-> "Scan is still in progress or failed"]]

\* get_scan_status: the response to GET /scan/{scan_id} in the current state
get_scan_status(scan_id) ==
    IF scan_id \notin DOMAIN active_scans
    THEN [code |-> 404, scan_id |-> scan_id, body |-> [detail |-> "Scan not found"]]
    ELSE IF active_scans[scan_id].status = "completed" /\ scan_id \in DOMAIN scan_results
    THEN [code |-> 200, scan_id |-> scan_id,
          body |-> [status |-> active_scans[scan_id].status,
                    results |-> scan_results[scan_id]]]
    ELSE [code |-> 200, scan_id |-> scan_id,
          body |-> [status |-> active_scans[scan_id].status,
                    message |-> "Scan is still in progress or failed"]]

\* a client polls a scan id, registered or not
GetScanStatus(scan_id) ==
    /\ response' = get_scan_status(scan_id)
    /\ UNCHANGED <<active_scans, scan_results, temp_dirs, task, StatsVars, TrendVars, FixVars, AnalyzerVars>>

ScanInit ==
    /\ active_scans = <<>>
    /\ scan_results = <<>>
    /\ temp_dirs = {}
    /\ task = [s \in ScanIds |-> NoTask]
    /\ response = [code |-> 0]

Next ==
    \/ \E url \in DOMAIN Repositories : StartScan(url)
    \/ \E s \in ScanIds : ExecuteScan(s)
    \/ \E id \in ScanIds : GetScanStatus(id)


-----------------------------------------------------------------------------
(* StatsGenerator.generate_trend_data *)

EmptyTrend ==
    [dates |-> <<>>, critical |-> <<>>, high |-> <<>>, medium |-> <<>>,
     low |-> <<>>, risk_scores |-> <<>>]

TrendStepWithoutSkip(trend, scan_id, results) ==
    LET result      == Get(results, scan_id, <<>>)
        vulns       == Get(result, "vulnerabilities", <<>>)
        risk_counts == Counter(RiskLevels(vulns))
    IN  [dates       |-> IF scan_id \in DOMAIN results
                         THEN Append(trend.dates, Get(result, "timestamp", ""))
                         ELSE trend.dates,
         critical    |-> Append(trend.critical, Get(risk_counts, critical, 0)),
         high        |-> Append(trend.high, Get(risk_counts, high, 0)),
         medium      |-> Append(trend.medium, Get(risk_counts, medium, 0)),
         low         |-> Append(trend.low, Get(risk_counts, low, 0)),
         risk_scores |-> Append(trend.risk_scores, Get(result, "risk_score", 0))]

\* one iteration of `for scan_id in scan_ids`
TrendStep(trend, scan_id, results) ==
    IF scan_id \notin DOMAIN results THEN trend
    ELSE
      LET result      == results[scan_id]
          vulns       == Get(result, "vulnerabilities", <<>>)
          risk_counts == Counter(RiskLevels(vulns))
      IN  [dates       |-> Append(trend.dates, Get(result, "timestamp", "")),
           critical    |-> Append(trend.critical, Get(risk_counts, critical, 0)),
           high        |-> Append(trend.high, Get(risk_counts, high, 0)),
           medium      |-> Append(trend.medium, Get(risk_counts, medium, 0)),
           low         |-> Append(trend.low, Get(risk_counts, low, 0)),
           risk_scores |-> Append(trend.risk_scores, Get(result, "risk_score", 0))]

RECURSIVE TrendLoop(_, _, _)
TrendLoop(trend, ids, results) ==
    IF ids = <<>> THEN trend
    ELSE TrendLoop(TrendStep(trend, Head(ids), results), Tail(ids), results)

\* StatsGenerator.generate_trend_data
generate_trend_data(ids, results) == TrendLoop(EmptyTrend, ids, results)

-----------------------------------------------------------------------------
(* The dashboard (main.py): get_dashboard_stats *)

\* for scan_id in user_scan_ids: if scan_id in scan_results:
\*     all_vulnerabilities.extend(scan_results[scan_id]["vulnerabilities"])
RECURSIVE AllVulnerabilities(_, _)
AllVulnerabilities(ids, results) ==
    IF ids = <<>> THEN <<>>
    ELSE (IF Head(ids) \in DOMAIN results
          THEN results[Head(ids)].vulnerabilities ELSE <<>>)
         \o AllVulnerabilities(Tail(ids), results)

\* a dashboard that takes every registered scan of the user for a completed one
DashboardOverEveryScan(user) ==
    LET registered    == [i \in 1..Cardinality(DOMAIN active_scans) |-> i]
        user_scan_ids == SelectSeq(registered, LAMBDA scan_id :
                             active_scans[scan_id].requested_by = user.username)
    IN  [code |-> 200,
         body |-> [overall_stats |-> generate(AllVulnerabilities(user_scan_ids, scan_results)),
                   trends        |-> generate_trend_data(user_scan_ids, scan_results),
                   scan_count    |-> Len(user_scan_ids)]]

\* get_dashboard_stats: the response to GET /dashboard/stats in the current
\* state; active_scans.items() yields the scans in the order they were
\* registered, which is the order of their ids
get_dashboard_stats(user) ==
    LET registered    == [i \in 1..Cardinality(DOMAIN active_scans) |-> i]
        user_scan_ids == SelectSeq(registered, LAMBDA scan_id :
                             /\ active_scans[scan_id].status = "completed"
                             /\ active_scans[scan_id].requested_by = user.username)
    IN  [code |-> 200,
         body |-> [overall_stats |-> generate(AllVulnerabilities(user_scan_ids, scan_results)),
                   trends        |-> generate_trend_data(user_scan_ids, scan_results),
                   scan_count    |-> Len(user_scan_ids)]]

-----------------------------------------------------------------------------
(* The components at rest *)

StatsIdle ==
    /\ vulnerabilities = <<>>
    /\ stats = generate(<<>>)
    /\ risk_score = calculate_risk_score(<<>>)

TrendIdle ==
    /\ scan_ids = <<>>
    /\ trend_data = generate_trend_data(<<>>, <<>>)

FixIdle ==
    /\ vulnerability = None
    /\ suggested_fix = None
    /\ templates = fix_templates

AnalyzerIdle ==
    /\ root_directory = None
    /\ walked = None
    /\ asked = None

-----------------------------------------------------------------------------
(* The scan service *)

Init ==
    /\ ScanInit
    /\ StatsIdle
    /\ TrendIdle
    /\ FixIdle
    /\ AnalyzerIdle

Spec == Init /\ [][Next]_vars

\* a background task that has been queued is run, and runs on to its end
FairSpec == Spec /\ \A s \in ScanIds : WF_vars(ExecuteScan(s))

\* a client asks for the dashboard
GetDashboardStats ==
    /\ response' = get_dashboard_stats(current_user)
    /\ UNCHANGED <<active_scans, scan_results, temp_dirs, task, StatsVars, TrendVars, FixVars, AnalyzerVars>>

\* the scan service with its dashboard
SpecDashboard == Init /\ [][Next \/ GetDashboardStats]_vars

-----------------------------------------------------------------------------
(* The aggregator applied to finding collections *)

\* findings as the detector hands them on: fields may be missing, and risk
\* levels and types may differ in letter case
SampleFindings ==
    { [type |-> sql_injection, risk_level |-> high,
       confidence |-> [num |-> 80], file_path |-> AppPy],
      [type |-> <<"S","Q","L","_","I","n","j","e","c","t","i","o","n">>,
       risk_level |-> <<"H","I","G","H">>,
       confidence |-> [cat |-> "medium"], file_path |-> LibPy],
      [type |-> hardcoded_secrets, risk_level |-> critical,
       confidence |-> [num |-> 50], file_path |-> AppPy],
      [type |-> hardcoded_secrets, risk_level |-> <<"C","r","i","t","i","c","a","l">>,
       file_path |-> LibPy],
      [risk_level |-> info, confidence |-> [num |-> 30]],
      [type |-> xss, file_path |-> ViewJs],
      [type |-> command_injection, risk_level |-> medium],
      [type |-> xss, risk_level |-> low, confidence |-> [cat |-> "low"]],
      [type |-> insecure_deserialization, risk_level |-> unknown],
      [type |-> xss, risk_level |-> <<"s","e","v","e","r","e">>] }

\* one more finding in the collection, and both reductions applied to it
Aggregate(f) ==
    /\ Len(vulnerabilities) < MaxFindings
    /\ Cardinality(Range(vulnerabilities) \cup {f}) <= MaxKinds
    /\ vulnerabilities' = Append(vulnerabilities, f)
    /\ stats' = generate(vulnerabilities')
    /\ risk_score' = calculate_risk_score(vulnerabilities')
    /\ UNCHANGED <<ScanVars, TrendVars, FixVars, AnalyzerVars>>

StatsInit ==
    /\ StatsIdle
    /\ ScanInit
    /\ TrendIdle
    /\ FixIdle
    /\ AnalyzerIdle

SpecStats == StatsInit /\ [][\E f \in SampleFindings : Aggregate(f)]_vars

-----------------------------------------------------------------------------
(* Trend data over report stores *)

\* the scan ids a trend may be asked for
TrendIds == 1..(MaxScans + 1)

\* the findings of a stored report: one of them in another letter case, one
\* without a risk level
SampleVulnerabilities ==
    Enhance(<< [file_path |-> AppPy] @@ SecretMatch,
               [file_path |-> AppPy, risk_level |-> <<"C","R","I","T","I","C","A","L">>]
                   @@ QueryMatch,
               [type |-> xss, file_path |-> ViewJs] >>) \o <<>>

\* the reports a store may hold under an id: what execute_scan stores, and a
\* report that lacks the fields generate_trend_data reads with a default
SampleReports(id) ==
    << Report(id, "2026-01-01T10:00:00", <<>>),
       Report(id, "2026-01-02T10:00:00", SampleVulnerabilities),
       [scan_id |-> id] >>

\* every store that holds reports under some of the ids
ReportStores ==
    UNION { { [id \in ids |-> SampleReports(id)[pick[id]]] : pick \in [ids -> 1..3] } :
            ids \in SUBSET TrendIds }

\* one more id in the list, and the trend computed for the list
Trend(id) ==
    /\ Len(scan_ids) < MaxTrendIds
    /\ scan_ids' = Append(scan_ids, id)
    /\ trend_data' = generate_trend_data(scan_ids', scan_results)
    /\ UNCHANGED <<ScanVars, StatsVars, FixVars, AnalyzerVars>>

TrendInit ==
    /\ scan_results \in ReportStores
    /\ active_scans = <<>>
    /\ temp_dirs = {}
    /\ task = [s \in ScanIds |-> NoTask]
    /\ response = [code |-> 0]
    /\ TrendIdle
    /\ StatsIdle
    /\ FixIdle
    /\ AnalyzerIdle

SpecTrend == TrendInit /\ [][\E id \in TrendIds : Trend(id)]_vars

-----------------------------------------------------------------------------
(* The fix generator applied to findings *)

\* the pieces snippets are put together from
Fragments ==
    { <<"a","p","i","_","k","e","y">>,
      <<" ","="," ">>,
      <<"\"","s","3","\"">>,
      <<"\"","$","{","t","}","\"">>,
      <<"c","u","r","s","o","r",".","e","x","e","c","u","t","e","(">>,
      <<"\"","q","\""," ","+"," ","u","\"",")">>,
      <<"o","s",".","s","y","s","t","e","m","(">>,
      <<"p","i","c","k","l","e",".","l","o","a","d","s","(">>,
      <<")">> }

\* the types of the findings: the registered ones, one in another letter
\* case, the generic categories and one that has none
FixTypes ==
    { sql_injection, command_injection, hardcoded_secrets, insecure_deserialization,
      <<"H","a","r","d","c","o","d","e","d","_","S","e","c","r","e","t","s">>,
      xss,
      <<"p","a","t","h","_","t","r","a","v","e","r","s","a","l">>,
      <<"w","e","a","k","_","c","r","y","p","t","o">> }

RECURSIVE Flatten(_)
Flatten(pieces) ==
    IF pieces = <<>> THEN <<>> ELSE Head(pieces) \o Flatten(Tail(pieces))

\* the snippets of at most MaxPieces pieces
Snippets ==
    {Flatten(p) : p \in UNION {[1..k -> Fragments] : k \in 0..MaxPieces}}

\* the findings generate_fix is called with; one has no type
FixInputs ==
    {[type |-> t, code_snippet |-> s] : t \in FixTypes, s \in Snippets}
      \cup {[code_snippet |-> s] : s \in Snippets}

\* suggested_fix = fix_generator.generate_fix(vuln)
GenerateFix ==
    /\ suggested_fix = None
    /\ suggested_fix' = generate_fix(vulnerability)
    /\ UNCHANGED <<vulnerability, templates, ScanVars, StatsVars, TrendVars, AnalyzerVars>>

FixInit ==
    /\ vulnerability \in FixInputs
    /\ suggested_fix = None
    /\ templates = fix_templates
    /\ ScanInit
    /\ StatsIdle
    /\ TrendIdle
    /\ AnalyzerIdle

SpecFix == FixInit /\ [][GenerateFix]_vars

-----------------------------------------------------------------------------
(* One fix generator called for finding after finding *)

\* the findings the generator is called with: the detector's, one whose
\* template does not match, one of a type without template, one without type
CallInputs ==
    { SecretMatch, QueryMatch, EchoMatch,
      [type |-> hardcoded_secrets, code_snippet |-> EchoSnippet],
      [type |-> xss, code_snippet |-> <<>>],
      [code_snippet |-> QuerySnippet] }

\* suggested_fix = fix_generator.generate_fix(vuln) and the enhanced finding
\* appended to the list; nothing is assigned to the finding or to
\* self.fix_templates
FixFinding(vuln) ==
    /\ Len(vulnerabilities) < MaxCalls
    /\ vulnerability' = vuln
    /\ vulnerabilities' = vulnerabilities \o Enhance(<<vuln>>)
    /\ suggested_fix' = vulnerabilities'[Len(vulnerabilities')].suggested_fix
    /\ UNCHANGED <<templates, stats, risk_score, ScanVars, TrendVars, AnalyzerVars>>

SpecFixCalls == Init /\ [][\E vuln \in CallInputs : FixFinding(vuln)]_vars

-----------------------------------------------------------------------------
(* A CodeAnalyzer asked about a directory and about paths *)

MaxDepth == 3

\* a directory that holds one file at the end of a chain of directories
RECURSIVE ChainTree(_, _)
ChainTree(chain, name) ==
    IF chain = <<>> THEN [files |-> <<[name |-> name]>>, dirs |-> <<>>]
    ELSE [files |-> <<>>,
          dirs  |-> <<[name |-> Head(chain), content |-> ChainTree(Tail(chain), name)]>>]

\* the directories find_files is handed: the clones of the repositories, an
\* empty directory, the chains up to MaxDepth deep of excluded and other
\* directory names around one file (whose own name may be an excluded one),
\* and directories with files at several levels and on several branches
Directories ==
    LET names == {DotGit, <<"s","r","c">>, <<"b","u","i","l","d">>, <<"B","u","i","l","d">>}
        chains == UNION {[1..n -> names] : n \in 0..MaxDepth}
        Leaf(name) == [files |-> <<[name |-> name]>>, dirs |-> <<>>]
        Branches(a, b) ==
            [files |-> <<[name |-> AppPy]>>,
             dirs  |-> <<[name |-> a,
                          content |-> [files |-> <<[name |-> LibPy]>>,
                                       dirs  |-> <<[name |-> b, content |-> Leaf(GitConfig)]>>]],
                         [name |-> b,
                          content |-> [files |-> <<[name |-> ViewJs], [name |-> AppPy]>>,
                                       dirs  |-> <<[name |-> a, content |-> Leaf(LibPy)]>>]]>>]
    IN  {Repositories[url].tree : url \in DOMAIN Repositories}
        \cup {ChainTree(chain, name) : chain \in chains, name \in {AppPy, <<"d","i","s","t">>}}
        \cup {Branches(a, b) : a, b \in names}

\* the paths the two file questions are asked about: a name with every
\* extension of the table, the same in capitals under a directory with a dot
\* in its name, and names with another extension, with none, with only
\* leading dots, with several dots, with a dot in a directory only
SamplePaths ==
    {<<"m">> \o SupportedExtensionItems[i][1] : i \in DOMAIN SupportedExtensionItems}
    \cup {<<"s","r","c",".","d","/","M">> \o Upper(SupportedExtensionItems[i][1]) :
             i \in DOMAIN SupportedExtensionItems}
    \cup {<<>>,
      <<"n","o","n","e","x","i","s","t","e","n","t",".","x","y","z">>,
      <<"M","a","k","e","f","i","l","e">>,
      <<".","g","i","t","i","g","n","o","r","e">>,
      <<".","p","y">>,
      <<".",".","p","y">>,
      <<"a","r","c","h","i","v","e",".","t","a","r",".","g","z">>,
      <<"a","p","p",".","p","y",".","b","a","k">>,
      <<"a","p","p",".">>,
      <<"s","r","c",".","p","y","/","R","E","A","D","M","E">>,
      <<"l","i","b",".","c","/",".","h">>,
      <<"a",".","b",".","c">>,
      <<"a","p","p",".","p","y","/">>,
      <<"x",".","p","y","c">>,
      <<".","h","i","d","d","e","n",".","r","s">>}

AnalyzerInit ==
    /\ root_directory \in Directories
    /\ walked = None
    /\ asked = None
    /\ ScanInit
    /\ StatsIdle
    /\ TrendIdle
    /\ FixIdle

\* file_list = code_analyzer.find_files(directory)
FindFilesOfDirectory ==
    /\ walked = None
    /\ walked' = [file_list |-> find_files(root_directory)]
    /\ UNCHANGED <<root_directory, asked, ScanVars, StatsVars, TrendVars, FixVars>>

\* code_analyzer.is_supported_file(file_path) and
\* code_analyzer.get_file_language(file_path), asked once in a behaviour
\* (neither reads nor writes anything an earlier call left)
AskAboutFile(path) ==
    /\ asked = None
    /\ asked' = [file_path |-> path,
                 supported |-> is_supported_file(path),
                 language  |-> get_file_language(path)]
    /\ UNCHANGED <<root_directory, walked, ScanVars, StatsVars, TrendVars, FixVars>>

AnalyzerNext ==
    \/ FindFilesOfDirectory
    \/ \E path \in SamplePaths \cup (IF walked = None THEN {} ELSE Range(walked.file_list)) :
          AskAboutFile(path)

SpecAnalyzer == AnalyzerInit /\ [][AnalyzerNext]_vars

-----------------------------------------------------------------------------
(* Properties of the aggregator *)

RECURSIVE SumValues(_)
SumValues(d) ==
    IF DOMAIN d = {} THEN 0
    ELSE LET k == CHOOSE x \in DOMAIN d : TRUE
         IN  d[k] + SumValues([x \in DOMAIN d \ {k} |-> d[x]])

\* C6: for every finding collection, the empty one and those with missing or
\* differently cased risk levels and types included, total_vulnerabilities is
\* the number of findings and both distributions sum to it; for the empty
\* collection all three are zero and the distributions are empty.
C6_DistributionsSumToTotal ==
    /\ stats.total_vulnerabilities = Len(vulnerabilities)
    /\ SumValues(stats.risk_distribution) = stats.total_vulnerabilities
    /\ SumValues(stats.type_distribution) = stats.total_vulnerabilities
    /\ vulnerabilities = <<>> =>
          /\ stats.total_vulnerabilities = 0
          /\ DOMAIN stats.risk_distribution = {}
          /\ DOMAIN stats.type_distribution = {}

\* a collection with a finding that has no risk level, one that has no type
\* and one whose risk level is not in lower case
C6_Witness ==
    /\ Len(vulnerabilities) >= 3
    /\ \E i \in DOMAIN vulnerabilities : "risk_level" \notin DOMAIN vulnerabilities[i]
    /\ \E i \in DOMAIN vulnerabilities :
          /\ "risk_level" \in DOMAIN vulnerabilities[i]
          /\ Lower(vulnerabilities[i].risk_level) # vulnerabilities[i].risk_level
    /\ SumValues(stats.risk_distribution) = Len(vulnerabilities)

Repeat(f, n) == [i \in 1..n |-> f]

\* the collections every analysed collection is compared with
OtherCollections ==
    {Repeat(f, n) : f \in SampleFindings, n \in 0..MaxFindings}

\* their total weights and scores
OtherScores ==
    {<<total_weight(B), calculate_risk_score(B)>> : B \in OtherCollections}

\* the score is in [0, 100] (in tenths), 0 for the empty collection, and
\* ordered as the total weights are against every other collection
ScoreBoundedAndOrdered ==
    LET w == total_weight(vulnerabilities)
    IN  /\ risk_score \in 0..1000
        /\ vulnerabilities = <<>> => risk_score = 0
        /\ \A B \in OtherScores :
              /\ w <= B[1] => risk_score <= B[2]
              /\ B[1] <= w => B[2] <= risk_score

\* C7: the score is in [0, 100], 0 for the empty collection, non-decreasing
\* in totalWeight across collections, and adding a finding to a collection
\* never lowers its score.
C7_ScoreBoundedAndMonotone ==
    /\ []ScoreBoundedAndOrdered
    /\ [][Len(vulnerabilities') = Len(vulnerabilities) + 1
            => risk_score <= risk_score']_vars

\* a collection heavier than max_reasonable_weight, where min() cuts the score
C7_Witness ==
    /\ total_weight(vulnerabilities) > 2 * max_reasonable_weight
    /\ risk_score = 1000

OneCritical ==
    /\ Len(vulnerabilities) = 1
    /\ Lower(Get(vulnerabilities[1], "risk_level", unknown)) = critical

\* C8 as stated: one critical finding has totalWeight 10 and score 25.8
C8_OneCriticalScores258 ==
    OneCritical => total_weight(vulnerabilities) = 20 /\ risk_score = 258

\* C8, amended: one critical finding has totalWeight 10 and score
\* round(100*ln(1+10/50)/ln(2), 1), which is 26.3
C8_OneCriticalScores263 ==
    OneCritical => total_weight(vulnerabilities) = 20 /\ risk_score = 263

C8_Witness ==
    /\ OneCritical
    /\ vulnerabilities[1].risk_level # critical
    /\ risk_score = 263


-----------------------------------------------------------------------------
(* Properties of the scan service *)

\* execute_scan has returned, or has been left by an exception
Ended(s) == task[s].pc \in {"done", "raised"}

Terminal == {"completed", "failed"}

\* C1: on every exit path of execute_scan the workspace directory made for
\* the scan no longer exists when execute_scan ends, and the cleanup step
\* itself never raises because the workspace was never made.
C1_WorkspaceReleasedOnEveryExit ==
    \A s \in ScanIds :
        Ended(s) =>
            /\ task[s].pc # "raised"
            /\ task[s].temp_dir \notin temp_dirs

\* the scan ended on an error that scan_file raised for one file
FailedOnOneFile(s) ==
    /\ Ended(s)
    /\ task[s].error = "scan_file: cannot read file"

\* the findings of every file of the list that is supported and readable
\* are in the report of scan s
OtherFilesReported(s) ==
    LET tree == Repositories[task[s].repo_url].tree
    IN  /\ s \in DOMAIN scan_results
        /\ \A i \in DOMAIN task[s].file_list :
              LET path == task[s].file_list[i]
              IN  (is_supported_file(path) /\ ~ScanFileRaises(tree, path)) =>
                     \A f \in Range(Enhance(scan_file(tree, path))) :
                         f \in Range(scan_results[s].vulnerabilities)

\* C2: an error raised while one file is processed never aborts the others:
\* every other supported file is still scanned and its findings are in the
\* scan's report.
C2_FileErrorsAreIsolated ==
    \A s \in ScanIds : FailedOnOneFile(s) => OtherFilesReported(s)

\* the registry never holds another status, a failed scan has its error
\* message, and a scan whose execute_scan has ended has a terminal status
StatusesAreSound ==
    \A s \in DOMAIN active_scans :
        /\ active_scans[s].status \in {"in_progress"} \cup Terminal
        /\ active_scans[s].status = "failed" =>
              /\ "error" \in DOMAIN active_scans[s]
              /\ active_scans[s].error # ""
        /\ active_scans[s].status # "failed" => "error" \notin DOMAIN active_scans[s]
        /\ Ended(s) => active_scans[s].status \in Terminal

\* C3: every registered scan whose execute_scan runs reaches exactly one
\* terminal status, completed or failed, and does not stay in_progress; a
\* failed scan has an error message; a terminal status never changes.
C3_ScanReachesOneTerminalStatus ==
    /\ \A s \in ScanIds :
          (task[s].pc = "queued") ~>
              (s \in DOMAIN active_scans /\ active_scans[s].status \in Terminal)
    /\ []StatusesAreSound
    /\ [][\A s \in DOMAIN active_scans :
              active_scans[s].status \in Terminal
                  => active_scans'[s].status = active_scans[s].status]_vars

\* one scan has failed with its message, another has completed
C3_Witness ==
    \E s, t \in DOMAIN active_scans :
        /\ Ended(s) /\ active_scans[s].status = "failed"
        /\ active_scans[s].error = "git: repository not found"
        /\ Ended(t) /\ active_scans[t].status = "completed"

\* the findings a scan of the files yields when nothing else runs; ok is
\* FALSE where scan_file raises
RECURSIVE FindingsAlone(_, _)
FindingsAlone(tree, files) ==
    IF files = <<>> THEN [ok |-> TRUE, vulns |-> <<>>]
    ELSE IF ~is_supported_file(Head(files)) THEN FindingsAlone(tree, Tail(files))
    ELSE IF ScanFileRaises(tree, Head(files)) THEN [ok |-> FALSE, vulns |-> <<>>]
    ELSE LET rest == FindingsAlone(tree, Tail(files))
         IN  [ok |-> rest.ok,
              vulns |-> Enhance(scan_file(tree, Head(files))) \o rest.vulns]

\* status and report of a scan of the repository that runs alone and gets
\* its workspace
OutcomeAlone(url) ==
    LET repo  == Repositories[url]
        found == IF repo.clone_ok
                 THEN FindingsAlone(repo.tree, find_files(repo.tree))
                 ELSE [ok |-> FALSE, vulns |-> <<>>]
    IN  IF ~found.ok
        THEN [status |-> "failed", reported |-> FALSE]
        ELSE [status |-> "completed", reported |-> TRUE,
              vulnerabilities |-> found.vulns,
              stats |-> generate(found.vulns),
              risk_score |-> calculate_risk_score(found.vulns)]

\* the outcome alone of each repository, computed once
OutcomesAlone ==
    [missing |-> OutcomeAlone("missing"),
     docs    |-> OutcomeAlone("docs"),
     webapp  |-> OutcomeAlone("webapp"),
     broken  |-> OutcomeAlone("broken")]

\* status and report of scan s as the registries hold them; the report's
\* timestamp is the time of day, which no run repeats
Outcome(s) ==
    IF s \in DOMAIN scan_results
    THEN [status |-> active_scans[s].status, reported |-> TRUE,
          vulnerabilities |-> scan_results[s].vulnerabilities,
          stats |-> scan_results[s].stats,
          risk_score |-> scan_results[s].risk_score]
    ELSE [status |-> active_scans[s].status, reported |-> FALSE]

ScansAreIndependent ==
    /\ DOMAIN scan_results \subseteq DOMAIN active_scans
    /\ \A s \in DOMAIN scan_results : scan_results[s].scan_id = s
    /\ \A s \in ScanIds :
          Ended(s) =>
              \/ Outcome(s) = OutcomesAlone[task[s].repo_url]
              \/ /\ task[s].temp_dir = Unbound
                 /\ Outcome(s) = [status |-> "failed", reported |-> FALSE]

\* the registry entries and the workspace of scan o are the same before and
\* after the step
Untouched(o) ==
    /\ o \in DOMAIN active_scans' <=> o \in DOMAIN active_scans
    /\ o \in DOMAIN active_scans => active_scans'[o] = active_scans[o]
    /\ o \in DOMAIN scan_results' <=> o \in DOMAIN scan_results
    /\ o \in DOMAIN scan_results => scan_results'[o] = scan_results[o]
    /\ o \in temp_dirs' <=> o \in temp_dirs

\* C4: in every interleaving of scans a step that is not scan o's own (its
\* start_scan or a step of its execute_scan) leaves o's registry entries and
\* workspace as they are, and status and report of each scan are those of
\* the scan run alone.
C4_ScansAreIndependent ==
    /\ []ScansAreIndependent
    /\ [][\A o \in ScanIds : task'[o] = task[o] => Untouched(o)]_vars

\* two scans of different repositories have both ended, with different
\* outcomes, after running at the same time
C4_Witness ==
    \E s, t \in ScanIds :
        /\ Ended(s) /\ Ended(t)
        /\ Outcome(s).status = "completed" /\ Outcome(s).vulnerabilities # <<>>
        /\ Outcome(t).status = "failed"
        /\ task[t].error = "scan_file: cannot read file"

\* what a poll of an acknowledged scan answers
PollIsSound(s) ==
    LET r == get_scan_status(s)
    IN  /\ s \in DOMAIN active_scans
        /\ r.code = 200
        /\ r.body.status = active_scans[s].status
        /\ task[s].pc \in {"queued", "clone", "find", "files", "mark", "except"} =>
              /\ r.body.status = "in_progress"
              /\ "results" \notin DOMAIN r.body
        /\ "results" \in DOMAIN r.body =>
              /\ r.body.status = "completed"
              /\ r.body.results.scan_id = s

\* C5: start_scan registers the scan as in_progress before its background
\* execution begins and returns the id; from then on get_scan_status never
\* answers 'not found', answers in_progress until the scan reaches a terminal
\* status, and returns the results only once the status is completed.
C5_AcknowledgedScanIsPollable ==
    /\ [](\A s \in ScanIds : task[s].pc # "none" => PollIsSound(s))
    /\ []((response.code = 200 /\ "results" \in DOMAIN response.body) =>
              active_scans[response.scan_id].status = "completed")
    /\ [][\A url \in DOMAIN Repositories :
              StartScan(url) =>
                  /\ response'.scan_id \notin DOMAIN active_scans
                  /\ response'.scan_id \in DOMAIN active_scans'
                  /\ active_scans'[response'.scan_id].status = "in_progress"
                  /\ task'[response'.scan_id].pc = "queued"]_vars

\* a poll has returned the results of a completed scan while another scan,
\* acknowledged, has not begun to run
C5_Witness ==
    /\ response.code = 200
    /\ "results" \in DOMAIN response.body
    /\ response.body.results.vulnerabilities # <<>>
    /\ \E s \in ScanIds : task[s].pc = "queued"

-----------------------------------------------------------------------------
(* Properties of the trend data *)

\* the ids of the list that the store resolves, in the order of the list
Resolvable == SelectSeq(scan_ids, LAMBDA id : id \in DOMAIN scan_results)

\* the number of findings of a report with the risk level, in any letter case
CountOfLevel(report, level) ==
    LET vulns == Get(report, "vulnerabilities", <<>>)
    IN  Cardinality({i \in DOMAIN vulns :
                        Lower(Get(vulns[i], "risk_level", unknown)) = level})

\* C9: the six sequences have the same length, the number of list entries
\* whose id is in the store; absent ids are skipped; the k-th entry of every
\* sequence is taken from the report of the k-th resolvable id.
C9_TrendFollowsResolvableIds ==
    LET n == Len(Resolvable)
    IN  /\ DOMAIN trend_data =
              {"dates", "critical", "high", "medium", "low", "risk_scores"}
        /\ \A key \in DOMAIN trend_data : Len(trend_data[key]) = n
        /\ \A k \in 1..n :
              LET report == scan_results[Resolvable[k]]
              IN  /\ trend_data.dates[k] = Get(report, "timestamp", "")
                  /\ trend_data.critical[k] = CountOfLevel(report, critical)
                  /\ trend_data.high[k] = CountOfLevel(report, high)
                  /\ trend_data.medium[k] = CountOfLevel(report, medium)
                  /\ trend_data.low[k] = CountOfLevel(report, low)
                  /\ trend_data.risk_scores[k] = Get(report, "risk_score", 0)

\* a list with an absent id and a repeated id, over reports with findings
C9_Witness ==
    /\ Len(scan_ids) = 3
    /\ scan_ids[1] = scan_ids[3]
    /\ scan_ids[2] \notin DOMAIN scan_results
    /\ Len(trend_data.dates) = 2
    /\ trend_data.critical[1] = 1

-----------------------------------------------------------------------------
(* Properties of the fix generator *)

EnvironLookupHead ==
    <<" ","="," ","o","s",".","e","n","v","i","r","o","n",".","g","e","t","(","'">>

EnvironLookupTail ==
    <<"'",","," ","'","'",")">>

\* the finding is of type hardcoded_secrets, its snippet matches the
\* template's pattern, and generate_fix has been called
SecretsFindingFixed ==
    /\ suggested_fix # None
    /\ "type" \in DOMAIN vulnerability
    /\ vulnerability.type = hardcoded_secrets
    /\ Search(SecretsPattern, vulnerability.code_snippet).ok

\* C10: for a hardcoded_secrets finding whose snippet matches NAME = "literal"
\* generate_fix returns NAME = os.environ.get('UPPER(NAME)', ''), with no
\* unfilled placeholder left.
C10_SecretsFixIsParameterized ==
    SecretsFindingFixed =>
        LET snippet == vulnerability.code_snippet
            name    == Group(snippet, Search(SecretsPattern, snippet), 1)
        IN  /\ suggested_fix.fixed_code =
                  name \o EnvironLookupHead \o Upper(name) \o EnvironLookupTail
            /\ ~Contains(<<"{", "}">>, suggested_fix.fixed_code)


\* the registered template keys that occur in the finding's type and whose
\* pattern matches the finding's snippet
ApplicableTemplates(vuln) ==
    {k \in DOMAIN fix_templates :
        /\ Contains(k, Lower(Get(vuln, "type", <<>>)))
        /\ Search(fix_templates[k].pattern, Get(vuln, "code_snippet", <<>>)).ok}

\* the generic category of a type: SQL, command, cross-site scripting,
\* path/file, or none of them
GenericCategory(vuln_type) ==
    IF Contains(<<"s","q","l">>, vuln_type) THEN "sql"
    ELSE IF \E word \in {<<"c","o","m","m","a","n","d">>, OsSystem,
                         <<"s","u","b","p","r","o","c","e","s","s">>} :
                Contains(word, vuln_type) THEN "command"
    ELSE IF Contains(xss, vuln_type) THEN "xss"
    ELSE IF \E word \in {<<"p","a","t","h">>, <<"f","i","l","e">>} :
                Contains(word, vuln_type) THEN "path"
    ELSE "manual"

\* the fixed_code of the generic suggestion of a category
GenericFixedCode(category, code_snippet) ==
    CASE category = "sql"     -> SqlGenericFix
      [] category = "command" -> CommandGenericFix
      [] category = "xss"     -> XssGenericFix
      [] category = "path"    -> PathGenericFix
      [] OTHER                -> ManualReviewPrefix \o code_snippet

\* C11: generate_fix always returns a suggestion with fixed_code, explanation
\* and confidence; when no registered template occurs in the type, or the
\* template's pattern does not match the snippet, the suggestion is the
\* generic one of the type's category, with confidence low, and the default
\* one echoes the snippet.
C11_FallbackIsGenericSuggestion ==
    suggested_fix # None =>
        /\ DOMAIN suggested_fix = {"fixed_code", "explanation", "confidence"}
        /\ suggested_fix.confidence \in {"low", "medium"}
        /\ ApplicableTemplates(vulnerability) = {} =>
              /\ suggested_fix.confidence = "low"
              /\ suggested_fix.fixed_code =
                    GenericFixedCode(
                        GenericCategory(Lower(Get(vulnerability, "type", <<>>))),
                        Get(vulnerability, "code_snippet", <<>>))

\* a hardcoded_secrets finding whose snippet the template does not match got
\* the default suggestion, which echoes the snippet
C11_Witness ==
    /\ suggested_fix # None
    /\ "type" \in DOMAIN vulnerability
    /\ vulnerability.type = hardcoded_secrets
    /\ vulnerability.code_snippet # <<>>
    /\ ApplicableTemplates(vulnerability) = {}
    /\ suggested_fix.fixed_code = ManualReviewPrefix \o vulnerability.code_snippet


-----------------------------------------------------------------------------
(* Properties of repeated fix generation *)

\* the finding an enhanced finding was made from
FindingOf(enhanced) ==
    [k \in DOMAIN enhanced \ {"classification", "suggested_fix"} |-> enhanced[k]]

SameFindingSameFix ==
    \A i, j \in DOMAIN vulnerabilities :
        FindingOf(vulnerabilities[i]) = FindingOf(vulnerabilities[j])
            => vulnerabilities[i].suggested_fix = vulnerabilities[j].suggested_fix

-----------------------------------------------------------------------------
(* Properties of the code analyzer *)

\* the files a directory holds at any depth, each as the names of the
\* directories that lead to it and its own name
RECURSIVE FilesUnder(_, _)
FilesUnder(content, chain) ==
    {<<chain, content.files[i].name>> : i \in DOMAIN content.files}
    \cup UNION {FilesUnder(content.dirs[i].content, Append(chain, content.dirs[i].name)) :
                  i \in DOMAIN content.dirs}

\* those of them that no directory with an excluded name leads to
ReachableFiles(content) ==
    {f \in FilesUnder(content, <<>>) : \A i \in DOMAIN f[1] : f[1][i] \notin exclude_dirs}

\* C13: for every directory tree, find_files returns exactly the files that
\* can be reached from the root without passing through a directory whose
\* name is in the excluded set, each once; a tree whose only file is not
\* under an excluded directory yields exactly that one path, and a tree whose
\* only file sits inside an excluded directory, at any depth, yields the
\* empty sequence.
C13_FindFilesSkipsExcludedDirectories ==
    walked # None =>
        LET all       == FilesUnder(root_directory, <<>>)
            reachable == ReachableFiles(root_directory)
        IN  /\ Range(walked.file_list) = {JoinPath(f[1], f[2]) : f \in reachable}
            /\ Len(walked.file_list) = Cardinality(reachable)
            /\ Cardinality(all) = 1 =>
                  LET only == CHOOSE f \in all : TRUE
                  IN  IF \E i \in DOMAIN only[1] : only[1][i] \in exclude_dirs
                      THEN walked.file_list = <<>>
                      ELSE walked.file_list = <<JoinPath(only[1], only[2])>>

\* the only file of the tree lies three directories deep and the innermost
\* of them alone has an excluded name: nothing is returned
C13_Witness ==
    /\ root_directory =
          ChainTree(<<<<"s","r","c">>, <<"B","u","i","l","d">>, <<"b","u","i","l","d">>>>, AppPy)
    /\ walked = [file_list |-> <<>>]

\* the path ends with the extension, and in its last component something
\* other than dots comes before the extension
EndsWithExtension(path, ext) ==
    \E k \in 1..Len(path) :
        /\ SubSeq(path, k, Len(path)) = ext
        /\ \E j \in 1..(k - 1) :
              /\ path[j] \notin {".", "/"}
              /\ \A i \in j..(k - 1) : path[i] # "/"

\* C14: for every path, is_supported_file is true when the path carries an
\* extension of the extension-to-language table (get_file_language then gives
\* that extension's language) and false for any other extension and for
\* paths with no extension (get_file_language then gives 'Unknown'); so
\* is_supported_file holds exactly when get_file_language is not 'Unknown',
\* and both return a value for every path.
C14_SupportedIffLanguageKnown ==
    asked # None =>
        LET path  == Lower(asked.file_path)
            items == {i \in DOMAIN SupportedExtensionItems :
                         EndsWithExtension(path, SupportedExtensionItems[i][1])}
        IN  /\ asked.supported \in BOOLEAN
            /\ asked.supported <=> asked.language # "Unknown"
            /\ \A i \in items :
                  asked.supported /\ asked.language = SupportedExtensionItems[i][2]
            /\ items = {} => ~asked.supported /\ asked.language = "Unknown"

\* a path whose extension is written in capitals, under a directory with a
\* dot in its name: supported, and its language is the table's
C14_Witness ==
    /\ asked # None
    /\ asked.file_path = <<"s","r","c",".","d","/","M",".","P","Y">>
    /\ asked.supported
    /\ asked.language = "Python"

-----------------------------------------------------------------------------
(* Properties of the scan registries *)

\* the scans registered as completed
CompletedScans == {s \in DOMAIN active_scans : active_scans[s].status = "completed"}

\* a completed scan has its report, stored under its own id
CompletedHasReport ==
    \A s \in CompletedScans : s \in DOMAIN scan_results /\ scan_results[s].scan_id = s

\* a scan that is in progress or has failed is not served results
OnlyCompletedServed ==
    \A s \in DOMAIN active_scans \ CompletedScans :
        /\ active_scans[s].status \in {"in_progress", "failed"}
        /\ "results" \notin DOMAIN get_scan_status(s).body

\* every trend sequence of a dashboard body has scan_count entries
TrendsMatchCount(body) ==
    \A k \in DOMAIN body.trends : Len(body.trends[k]) = body.scan_count

\* C15: in every reachable state of the registries a scan whose status is
\* completed has a report in scan_results under its own scan_id, the report
\* being there before the status becomes completed; a scan whose status is
\* in_progress or failed is never served results by get_scan_status; and the
\* trend sequences of the dashboard have exactly one entry per completed
\* scan, scan_count being the number of completed scans.
C15_CompletedScansHaveReports ==
    /\ [](CompletedHasReport /\ OnlyCompletedServed)
    /\ [][\A s \in DOMAIN active_scans' :
              (active_scans'[s].status = "completed" /\ s \notin CompletedScans) =>
                  s \in DOMAIN scan_results /\ scan_results[s].scan_id = s]_vars
    /\ [](LET body == get_dashboard_stats(current_user).body
          IN  /\ body.scan_count = Cardinality(CompletedScans)
              /\ DOMAIN body.trends =
                    {"dates", "critical", "high", "medium", "low", "risk_scores"}
              /\ TrendsMatchCount(body))
    /\ []("trends" \in DOMAIN Get(response, "body", <<>>) => TrendsMatchCount(response.body))

\* the dashboard has answered with one completed scan counted, one entry in
\* its trends and that scan's findings in its statistics, while another scan
\* is registered as failed
C15_Witness ==
    /\ "trends" \in DOMAIN Get(response, "body", <<>>)
    /\ response.body.scan_count = 1
    /\ Len(response.body.trends.dates) = 1
    /\ response.body.overall_stats.total_vulnerabilities > 0
    /\ \E s \in DOMAIN active_scans : active_scans[s].status = "failed"

=============================================================================
